---------------------------- MODULE Spec2Model ----------------------------
(***************************************************************************)
(* Room lifecycle and persistence of TldrawDurableObject                   *)
(* (src/worker/CanvasToolHandler.ts): binding of the room identifier, the   *)
(* memoized construction of the room (getRoom), the requests that reach    *)
(* it, and the throttled save to R2 (schedulePersistToR2).                 *)
(*                                                                         *)
(* One step of the model is one turn of the JavaScript event loop: an       *)
(* event (a request, a socket message, a timer, the answer of R2) and the   *)
(* code it runs until that code waits for I/O.  An await of a promise that  *)
(* is already settled only yields to microtasks, so it does not end the     *)
(* step; an await of the pending construction promise does, and the        *)
(* handler resumes in a later step.  ctx.blockConcurrencyWhile holds every  *)
(* other event back, so the code it wraps is part of one step.              *)
(*                                                                         *)
(* Time is kept as ages: the throttle of lodash only ever compares          *)
(* Date.now() - lastCallTime and Date.now() - lastInvokeTime with `wait`,   *)
(* so the model stores these differences (in ms, saturating once they are   *)
(* >= wait) and the time left on the pending timer.                         *)
(*                                                                         *)
(* The handlers of CanvasToolHandler are modelled on the records of a       *)
(* loaded room (SpecTools), processTemplate on its own (SpecTemplate), and  *)
(* the handlers that the construction promise resumes together, await by    *)
(* await within one turn (SpecAwait).                                       *)
(***************************************************************************)
EXTENDS Integers, Sequences, FiniteSets, Bags, TLC

\* ------------------------------------------------------------- bounds
\* Requests awaiting the room at once.
MaxWaiting == 2
\* Mutations of the record store in one run.
MaxMutations == 3
\* r2.put calls in flight at once.
MaxInFlight == 2
\* Clock ticks per throttle interval (the clock advances by TickMs).
TicksPerWait == 2

\* --------------------------------------------------- program constants
\* throttle(..., 10_000)
wait == 10000

TickMs == wait \div TicksPerWait
\* The least multiple of TickMs that is >= wait: ages saturate there.
Sat == ((wait + TickMs - 1) \div TickMs) * TickMs

NULL == "null"
Absent == -1
RoomIds == {"r1", "r2"}
Users == {"u1"}

\* The routes of the router.
ReadOps == {"get-pages", "get-widgets"}
WriteOps == {"add-widget", "edit-widget", "generate-widget"}
ToolOps == ReadOps \cup WriteOps \cup {"update-storage"}

\* `rooms/${roomId}`
Key(rid) == <<"rooms", rid>>
Keys == {Key(r) : r \in RoomIds}

Min(a, b) == IF a <= b THEN a ELSE b
Max(a, b) == IF a >= b THEN a ELSE b

VARIABLES
    roomId,       \* this.roomId (memory)
    storage,      \* ctx.storage 'roomId' (durable)
    roomPromise,  \* this.roomPromise: 0 (null) or an index of promises
    promises,     \* the construction promises made: state, key loaded, room
    rooms,        \* the TLSocketRoom instances made: doc (id of the last mutation applied), sessions
    loads,        \* r2.get calls issued by this coordinator instance
    r2,           \* the bucket: key -> snapshot persisted, or Absent
    waiting,      \* the handlers suspended in `await this.getRoom()`: a bag of (op, promise awaited)
    lastResp,     \* the response of the request answered last
    thr,          \* the closure state of lodash's throttle
    inflight,     \* r2.put calls in flight: snapshot, key
    mutations,    \* mutations made so far (the id of the newest)
    sinceSave,    \* ms since the save function last started, -1 when it never did
    unsaved,      \* a change notification not yet followed by a save
    putFailed,    \* an r2.put of this coordinator instance was rejected
    store,        \* the records of the room (snapshot.documents, in iteration order)
    reply,        \* the body of the tool response returned last
    notifications,\* calls of onDataChange made by the record store
    subst,        \* a text, a storage map, and the results of processTemplate on them
    microtasks,   \* the continuations queued to run before the next event, first in first out
    arrived       \* the requests that awaited the room when it was made, and its records then

\* The variables of the lifecycle of the room, and those of the tool handlers.
lifeVars == <<roomId, storage, roomPromise, promises, rooms, loads, r2, waiting,
              lastResp, thr, inflight, mutations, sinceSave, unsaved, putFailed>>
awaitVars == <<microtasks, arrived>>
toolVars == <<store, reply, notifications, subst, awaitVars>>

vars == <<lifeVars, toolVars>>

\* A response: by "handler" when the handler built it, by "router" when the
\* handler threw and the catch of the router answered with error(e).
NoResp == [op |-> "none", status |-> 0, error |-> "none", by |-> "none"]
Resp(op, status, error) == [op |-> op, status |-> status, error |-> error, by |-> "handler"]
RouterError(op, error) == [op |-> op, status |-> 500, error |-> error, by |-> "router"]

\* The tool handlers before any request: an empty record store.
NoReply == [op |-> "none"]
\* No handler awaited the room when it was made.
NoneArrived ==
    /\ microtasks = <<>>
    /\ arrived = [store |-> <<>>, requests |-> <<>>]

ToolInit ==
    /\ store = <<>>
    /\ reply = NoReply
    /\ notifications = 0
    /\ subst = [html |-> <<>>, miyagiStorage |-> <<>>, out |-> <<>>]
    /\ NoneArrived

\* The closure of throttle before its first call: lastArgs, timerId and
\* lastCallTime undefined, lastInvokeTime = 0 (long ago).
ThrInit == [lastArgs |-> FALSE, timerId |-> -1, sinceCall |-> -1, sinceInvoke |-> Sat]

Init ==
    /\ roomId = NULL
    /\ storage = NULL
    /\ roomPromise = 0
    /\ promises = <<>>
    /\ rooms = <<>>
    /\ loads = 0
    /\ r2 = [k \in Keys |-> Absent]
    /\ waiting = EmptyBag
    /\ lastResp = NoResp
    /\ thr = ThrInit
    /\ inflight = <<>>
    /\ mutations = 0
    /\ sinceSave = -1
    /\ unsaved = FALSE
    /\ putFailed = FALSE
    /\ ToolInit


\* ------------------------------------------------------------- getRoom
\* getRoom() called with this.roomId = rid. err: it threw 'Missing roomId'.
\* Otherwise rp is the promise returned, ps and n the promises and loads after
\* the call: the first call starts the construction, whose first step issues
\* r2.get(`rooms/${roomId}`), and memoizes its promise.
getRoom_NoMemo(rid) ==
    IF rid = NULL
    THEN [err |-> TRUE, rp |-> roomPromise, ps |-> promises, n |-> loads]
    ELSE [err |-> FALSE,
          rp |-> Len(promises) + 1,
          ps |-> Append(promises, [state |-> "pending", key |-> Key(rid), room |-> 0]),
          n |-> loads + 1]

getRoom_MemoWhenLoaded(rid) ==
    IF rid = NULL
    THEN [err |-> TRUE, rp |-> roomPromise, ps |-> promises, n |-> loads]
    ELSE IF roomPromise = 0 \/ promises[roomPromise].state = "pending"
    THEN [err |-> FALSE,
          rp |-> Len(promises) + 1,
          ps |-> Append(promises, [state |-> "pending", key |-> Key(rid), room |-> 0]),
          n |-> loads + 1]
    ELSE [err |-> FALSE, rp |-> roomPromise, ps |-> promises, n |-> loads]

getRoom_MemoFirst(rid) ==
    IF roomPromise = 0
    THEN IF rid = NULL
         THEN [err |-> FALSE,
               rp |-> Len(promises) + 1,
               ps |-> Append(promises, [state |-> "rejected", key |-> Key(rid), room |-> 0]),
               n |-> loads]
         ELSE [err |-> FALSE,
               rp |-> Len(promises) + 1,
               ps |-> Append(promises, [state |-> "pending", key |-> Key(rid), room |-> 0]),
               n |-> loads + 1]
    ELSE [err |-> FALSE, rp |-> roomPromise, ps |-> promises, n |-> loads]

getRoom_RetryRejected(rid) ==
    IF rid = NULL
    THEN [err |-> TRUE, rp |-> roomPromise, ps |-> promises, n |-> loads]
    ELSE IF roomPromise = 0 \/ promises[roomPromise].state = "rejected"
    THEN [err |-> FALSE,
          rp |-> Len(promises) + 1,
          ps |-> Append(promises, [state |-> "pending", key |-> Key(rid), room |-> 0]),
          n |-> loads + 1]
    ELSE [err |-> FALSE, rp |-> roomPromise, ps |-> promises, n |-> loads]

getRoom(rid) ==
    IF rid = NULL
    THEN [err |-> TRUE, rp |-> roomPromise, ps |-> promises, n |-> loads]
    ELSE IF roomPromise = 0
    THEN [err |-> FALSE,
          rp |-> Len(promises) + 1,
          ps |-> Append(promises, [state |-> "pending", key |-> Key(rid), room |-> 0]),
          n |-> loads + 1]
    ELSE [err |-> FALSE, rp |-> roomPromise, ps |-> promises, n |-> loads]

\* ------------------------------------------------- throttle (lodash)
\* throttle(func, wait) is debounce(func, wait, {leading: true, maxWait: wait,
\* trailing: true}).  t is the closure state; the operators return the state
\* after, and whether func was invoked.
shouldInvoke(t) ==
    \/ t.sinceCall = -1          \* lastCallTime === undefined
    \/ t.sinceCall >= wait       \* timeSinceLastCall >= wait
    \/ t.sinceInvoke >= wait     \* maxing && timeSinceLastInvoke >= maxWait

remainingWait(t) == Min(wait - t.sinceCall, wait - t.sinceInvoke)

\* lastArgs = lastThis = undefined; lastInvokeTime = time; func.apply(...)
invokeFunc(t) == [t EXCEPT !.lastArgs = FALSE, !.sinceInvoke = 0]

\* lastInvokeTime = time; timerId = setTimeout(timerExpired, wait); invokeFunc(time)
leadingEdge(t) == invokeFunc([t EXCEPT !.sinceInvoke = 0, !.timerId = wait])

trailingEdge_NoTrailing(t) ==
    [t |-> [t EXCEPT !.timerId = -1, !.lastArgs = FALSE], invoke |-> FALSE]

trailingEdge(t) ==
    LET u == [t EXCEPT !.timerId = -1]
    IN  IF t.lastArgs
        THEN [t |-> invokeFunc(u), invoke |-> TRUE]
        ELSE [t |-> [u EXCEPT !.lastArgs = FALSE], invoke |-> FALSE]

timerExpired(t) ==
    IF shouldInvoke(t)
    THEN trailingEdge(t)
    ELSE [t |-> [t EXCEPT !.timerId = remainingWait(t)], invoke |-> FALSE]

\* A call of the throttled function.
debounced(t) ==
    LET isInvoking == shouldInvoke(t)
        u == [t EXCEPT !.lastArgs = TRUE, !.sinceCall = 0]
    IN  IF isInvoking /\ u.timerId = -1
        THEN [t |-> leadingEdge(u), invoke |-> TRUE]
        ELSE IF isInvoking
        THEN [t |-> invokeFunc([u EXCEPT !.timerId = wait]), invoke |-> TRUE]
        ELSE IF u.timerId = -1
        THEN [t |-> [u EXCEPT !.timerId = wait], invoke |-> FALSE]
        ELSE [t |-> u, invoke |-> FALSE]

\* TickMs pass.
Age(a) == IF a = -1 THEN -1 ELSE Min(Sat, a + TickMs)
tick(t) == [t EXCEPT !.sinceCall = Age(@),
                     !.sinceInvoke = Age(@),
                     !.timerId = IF @ = -1 THEN -1 ELSE Max(0, @ - TickMs)]

\* ---------------------------------------------------- the save function
\* The function given to throttle, run when lodash invokes it with the rooms
\* as they are now: the guard, getRoom, and the put of the room's snapshot
\* under `rooms/${this.roomId}`.  put is the r2.put calls it issues.
SaveFn_StaleSnapshot(roomsNow) ==
    IF roomPromise = 0 \/ roomId = NULL
    THEN [rp |-> roomPromise, ps |-> promises, n |-> loads, put |-> <<>>]
    ELSE LET g == getRoom(roomId)
         IN  [rp |-> g.rp, ps |-> g.ps, n |-> g.n,
              put |-> IF g.ps[g.rp].state = "fulfilled"
                      THEN <<[snap |-> rooms[g.ps[g.rp].room].doc, key |-> Key(roomId)]>>
                      ELSE <<>>]

SaveFn(roomsNow) ==
    IF roomPromise = 0 \/ roomId = NULL
    THEN [rp |-> roomPromise, ps |-> promises, n |-> loads, put |-> <<>>]
    ELSE LET g == getRoom(roomId)
         IN  [rp |-> g.rp, ps |-> g.ps, n |-> g.n,
              put |-> IF g.ps[g.rp].state = "fulfilled"
                      THEN <<[snap |-> roomsNow[g.ps[g.rp].room].doc, key |-> Key(roomId)]>>
                      ELSE <<>>]

\* What a call of schedulePersistToR2 or an expiry of its timer does outside
\* the closure of throttle: nothing, or one run of the save function.
\* notified: the step is a change notification.
Persist(invoke, roomsNow, notified) ==
    IF invoke
    THEN LET f == SaveFn(roomsNow)
         IN  /\ roomPromise' = f.rp
             /\ promises' = f.ps
             /\ loads' = f.n
             /\ inflight' = inflight \o f.put
             /\ sinceSave' = 0
             /\ unsaved' = IF f.put # <<>> THEN FALSE ELSE (unsaved \/ notified)
    ELSE /\ UNCHANGED <<roomPromise, promises, loads, inflight, sinceSave>>
         /\ unsaved' = (unsaved \/ notified)

\* room.updateStore(store => store.put(...)) or an update from a socket:
\* the record store of room h changes and onDataChange calls
\* this.schedulePersistToR2().
Mutate(h) ==
    /\ mutations < MaxMutations
    /\ mutations' = mutations + 1
    /\ rooms' = [rooms EXCEPT ![h].doc = mutations + 1]
    /\ LET d == debounced(thr)
       IN  /\ d.invoke => Len(inflight) < MaxInFlight
           /\ thr' = d.t
           /\ Persist(d.invoke, rooms', TRUE)


\* ------------------------------------------------------------ requests
\* No suspended handler can run: settling the construction promise queues
\* the continuations of the handlers awaiting it as microtasks, and they run
\* before the event loop takes the next event.
Quiescent == \A w \in BagToSet(waiting) : promises[w.p].state = "pending"

\* The router's connect route: `if (!this.roomId)` the identifier of the
\* request is stored and kept, inside blockConcurrencyWhile.
BindRoomId_Always(cur, rid) == rid

BindRoomId(cur, rid) == IF cur = NULL THEN rid ELSE cur

\* Whether a tool request reaches `await this.getRoom()`: valid, the required
\* field of the body is there (templateId, htmlContent, prompt); autoAdd, of
\* generate-widget.
ReachesGetRoom(op, valid, autoAdd) ==
    \/ op \in ReadOps
    \/ op \in {"add-widget", "edit-widget"} /\ valid
    \/ op = "generate-widget" /\ valid /\ autoAdd

\* A handler after `await this.getRoom()` gave it room h, to its response: a
\* connect joins the room as u, a read answers from a snapshot, a write puts
\* one record in the store.  found: edit-widget found the shape.
Serve(op, h, u, found) ==
    IF op = "connect"
    THEN /\ rooms' = [rooms EXCEPT ![h].sessions = @ \cup {u}]
         /\ lastResp' = Resp("connect", 101, "none")
         /\ UNCHANGED <<roomPromise, promises, loads, thr, inflight, mutations,
                        sinceSave, unsaved>>
    ELSE IF op \in ReadOps
    THEN /\ lastResp' = Resp(op, 200, "none")
         /\ UNCHANGED <<rooms, roomPromise, promises, loads, thr, inflight, mutations,
                        sinceSave, unsaved>>
    ELSE IF op = "edit-widget" /\ ~found
    THEN /\ lastResp' = Resp(op, 404, "not found")
         /\ UNCHANGED <<rooms, roomPromise, promises, loads, thr, inflight, mutations,
                        sinceSave, unsaved>>
    ELSE /\ Mutate(h)
         /\ lastResp' = Resp(op, 200, "none")

\* The suspended handlers that will write when they resume.
WaitingWrites ==
    LET ws == {w \in BagToSet(waiting) : w.op \in WriteOps}
        RECURSIVE Sum(_)
        Sum(S) == IF S = {} THEN 0
                  ELSE LET w == CHOOSE x \in S : TRUE
                       IN  CopiesIn(w, waiting) + Sum(S \ {w})
    IN  Sum(ws)

\* A handler calls `await this.getRoom()`, g being what getRoom returned:
\* it waits for the construction, or goes on with the room, or fails with
\* the construction.
AwaitRoom(op, g, u, found) ==
    IF g.ps[g.rp].state = "pending"
    THEN /\ BagCardinality(waiting) < MaxWaiting
         /\ op \in WriteOps => mutations + WaitingWrites < MaxMutations
         /\ waiting' = waiting (+) SetToBag({[op |-> op, p |-> g.rp]})
         /\ roomPromise' = g.rp
         /\ promises' = g.ps
         /\ loads' = g.n
         /\ UNCHANGED <<rooms, lastResp, thr, inflight, mutations, sinceSave, unsaved>>
    ELSE IF g.ps[g.rp].state = "rejected"
    THEN /\ lastResp' = IF op = "connect" THEN RouterError(op, "load failed")
                                          ELSE Resp(op, 500, "load failed")
         /\ roomPromise' = g.rp
         /\ promises' = g.ps
         /\ loads' = g.n
         /\ UNCHANGED <<waiting, rooms, thr, inflight, mutations, sinceSave, unsaved>>
    ELSE /\ g.ps = promises /\ g.rp = roomPromise
         /\ Serve(op, g.ps[g.rp].room, u, found)
         /\ waiting' = waiting

\* GET /api/connect/:roomId with handleConnect.
Connect(rid, hasUser, u) ==
    /\ Quiescent
    /\ roomId' = BindRoomId(roomId, rid)
    /\ storage' = BindRoomId(roomId, rid)
    /\ IF ~hasUser
       THEN /\ lastResp' = Resp("connect", 400, "Missing userId")
            /\ UNCHANGED <<roomPromise, promises, loads, waiting, rooms, thr, inflight,
                           mutations, sinceSave, unsaved>>
       ELSE LET g == getRoom(roomId')
            IN  IF g.err
                THEN /\ lastResp' = RouterError("connect", "Missing roomId")
                     /\ UNCHANGED <<roomPromise, promises, loads, waiting, rooms, thr,
                                    inflight, mutations, sinceSave, unsaved>>
                ELSE AwaitRoom("connect", g, u, TRUE)
    /\ r2' = r2
    /\ putFailed' = putFailed
    /\ UNCHANGED toolVars

\* A canvas tool route with its handler.
ToolRequest(op, valid, autoAdd, found) ==
    /\ Quiescent
    /\ IF op = "update-storage"
       THEN \* canvasToolHandler has no handleUpdateWidgetStorage: the call
            \* throws and the router's catch answers.
            /\ lastResp' = RouterError(op, "not a function")
            /\ UNCHANGED <<roomPromise, promises, loads, waiting, rooms, thr, inflight,
                           mutations, sinceSave, unsaved>>
       ELSE IF op \in WriteOps /\ ~valid
       THEN /\ lastResp' = Resp(op, 400, "Missing field")
            /\ UNCHANGED <<roomPromise, promises, loads, waiting, rooms, thr, inflight,
                           mutations, sinceSave, unsaved>>
       ELSE IF ~ReachesGetRoom(op, valid, autoAdd)
       THEN /\ lastResp' = Resp(op, 200, "none")
            /\ UNCHANGED <<roomPromise, promises, loads, waiting, rooms, thr, inflight,
                           mutations, sinceSave, unsaved>>
       ELSE LET g == getRoom(roomId)
            IN  IF g.err
                THEN \* caught by the handler: {success: false, error}
                     /\ lastResp' = Resp(op, 500, "Missing roomId")
                     /\ UNCHANGED <<roomPromise, promises, loads, waiting, rooms, thr,
                                    inflight, mutations, sinceSave, unsaved>>
                ELSE AwaitRoom(op, g, "u1", found)
    /\ UNCHANGED <<roomId, storage, r2>>
    /\ putFailed' = putFailed
    /\ UNCHANGED toolVars

\* The construction promise p settles, a failed load leaving an empty room.
LoadComplete_RoomOnFailure(p, ok) ==
    /\ Quiescent
    /\ p \in 1..Len(promises)
    /\ promises[p].state = "pending"
    /\ LET found == r2[promises[p].key]
       IN  /\ rooms' = Append(rooms, [doc |-> IF found = Absent \/ ~ok THEN 0 ELSE found,
                                     sessions |-> {}])
           /\ promises' = [promises EXCEPT ![p].state = IF ok THEN "fulfilled" ELSE "rejected",
                                           ![p].room = Len(rooms) + 1]
    /\ UNCHANGED <<roomId, storage, roomPromise, loads, r2, waiting, lastResp, thr,
                   inflight, mutations, sinceSave, unsaved>>
    /\ putFailed' = putFailed
    /\ UNCHANGED toolVars

\* The construction promise p settles: r2.get answered and the room was
\* made from the snapshot found (an empty room when there is none), or
\* r2.get failed.
LoadComplete(p, ok) ==
    /\ Quiescent
    /\ p \in 1..Len(promises)
    /\ promises[p].state = "pending"
    /\ IF ok
       THEN LET found == r2[promises[p].key]
            IN  /\ rooms' = Append(rooms, [doc |-> IF found = Absent THEN 0 ELSE found,
                                          sessions |-> {}])
                /\ promises' = [promises EXCEPT ![p].state = "fulfilled",
                                                ![p].room = Len(rooms) + 1]
       ELSE /\ promises' = [promises EXCEPT ![p].state = "rejected"]
            /\ rooms' = rooms
    /\ UNCHANGED <<roomId, storage, roomPromise, loads, r2, waiting, lastResp, thr,
                   inflight, mutations, sinceSave, unsaved>>
    /\ putFailed' = putFailed
    /\ UNCHANGED toolVars

\* A suspended handler resumes with the room of the promise it awaited.
Resume(w, u, found) ==
    /\ BagIn(w, waiting)
    /\ promises[w.p].state = "fulfilled"
    /\ Serve(w.op, promises[w.p].room, u, found)
    /\ waiting' = waiting (-) SetToBag({w})
    /\ UNCHANGED <<roomId, storage, r2>>
    /\ putFailed' = putFailed
    /\ UNCHANGED toolVars

\* `await this.getRoom()` rejects in a suspended handler: the load failed.
\* A tool handler catches it and answers {success: false, error}; for a
\* connect the router's catch answers.
ResumeRejected(w) ==
    /\ BagIn(w, waiting)
    /\ promises[w.p].state = "rejected"
    /\ lastResp' = IF w.op = "connect" THEN RouterError(w.op, "load failed")
                                        ELSE Resp(w.op, 500, "load failed")
    /\ waiting' = waiting (-) SetToBag({w})
    /\ UNCHANGED <<roomId, storage, roomPromise, promises, loads, rooms, r2, thr,
                   inflight, mutations, sinceSave, unsaved>>
    /\ putFailed' = putFailed
    /\ UNCHANGED toolVars

\* A connected client sends an update over its socket.
SocketUpdate(h, u) ==
    /\ Quiescent
    /\ h \in 1..Len(rooms)
    /\ u \in rooms[h].sessions
    /\ Mutate(h)
    /\ UNCHANGED <<roomId, storage, r2, waiting, lastResp>>
    /\ putFailed' = putFailed
    /\ UNCHANGED toolVars

\* --------------------------------------------------------- time, saves
Tick ==
    /\ Quiescent
    /\ thr.timerId # 0      \* a timer that is due fires before the clock moves on
    /\ thr' = tick(thr)
    /\ sinceSave' = Age(sinceSave)
    /\ UNCHANGED <<roomId, storage, roomPromise, promises, rooms, loads, r2, waiting,
                   lastResp, inflight, mutations, unsaved>>
    /\ putFailed' = putFailed
    /\ UNCHANGED toolVars

\* The timer of throttle fires.
TimerFired ==
    /\ Quiescent
    /\ thr.timerId = 0
    /\ LET d == timerExpired(thr)
       IN  /\ d.invoke => Len(inflight) < MaxInFlight
           /\ thr' = d.t
           /\ Persist(d.invoke, rooms, FALSE)
    /\ UNCHANGED <<roomId, storage, rooms, r2, waiting, lastResp, mutations>>
    /\ putFailed' = putFailed
    /\ UNCHANGED toolVars

Remove(seq, i) == SubSeq(seq, 1, i - 1) \o SubSeq(seq, i + 1, Len(seq))

\* r2.put number i resolves: the snapshot is in the bucket.
PutResolved(i) ==
    /\ Quiescent
    /\ i \in 1..Len(inflight)
    /\ r2' = [r2 EXCEPT ![inflight[i].key] = inflight[i].snap]
    /\ inflight' = Remove(inflight, i)
    /\ UNCHANGED <<roomId, storage, roomPromise, promises, rooms, loads, waiting,
                   lastResp, thr, mutations, sinceSave, unsaved>>
    /\ putFailed' = putFailed
    /\ UNCHANGED toolVars

\* r2.put number i rejects: the promise of the save function rejects, and
\* nothing awaits it.
PutRejected_Retry(i) ==
    /\ Quiescent
    /\ i \in 1..Len(inflight)
    /\ inflight' = Append(Remove(inflight, i), inflight[i])
    /\ thr' = [thr EXCEPT !.lastArgs = TRUE]
    /\ UNCHANGED <<roomId, storage, roomPromise, promises, rooms, loads, r2, waiting,
                   lastResp, mutations, sinceSave, unsaved>>
    /\ putFailed' = TRUE
    /\ UNCHANGED toolVars

PutRejected(i) ==
    /\ Quiescent
    /\ i \in 1..Len(inflight)
    /\ inflight' = Remove(inflight, i)
    /\ UNCHANGED <<roomId, storage, roomPromise, promises, rooms, loads, r2, waiting,
                   lastResp, thr, mutations, sinceSave, unsaved>>
    /\ putFailed' = TRUE
    /\ UNCHANGED toolVars

\* The Durable Object is evicted and made again: memory is lost, the
\* constructor reads the identifier back from storage, requests and saves in
\* flight are lost.
Restart ==
    /\ Quiescent
    /\ roomId' = storage
    /\ roomPromise' = 0
    /\ promises' = <<>>
    /\ rooms' = <<>>
    /\ loads' = 0
    /\ waiting' = EmptyBag
    /\ lastResp' = NoResp
    /\ thr' = ThrInit
    /\ inflight' = <<>>
    /\ sinceSave' = -1
    /\ unsaved' = FALSE
    /\ UNCHANGED <<storage, r2, mutations>>
    /\ putFailed' = FALSE
    /\ UNCHANGED toolVars

Waiters == BagToSet(waiting)

Next ==
    \/ \E rid \in RoomIds, hasUser \in BOOLEAN, u \in Users : Connect(rid, hasUser, u)
    \/ \E op \in ToolOps, valid \in BOOLEAN, autoAdd \in BOOLEAN, found \in BOOLEAN :
          ToolRequest(op, valid, autoAdd, found)
    \/ \E p \in 1..Len(promises), ok \in BOOLEAN : LoadComplete(p, ok)
    \/ \E w \in Waiters, u \in Users, found \in BOOLEAN : Resume(w, u, found)
    \/ \E w \in Waiters : ResumeRejected(w)
    \/ \E h \in 1..Len(rooms), u \in Users : SocketUpdate(h, u)
    \/ Tick
    \/ TimerFired
    \/ \E i \in 1..Len(inflight) : PutResolved(i)
    \/ \E i \in 1..Len(inflight) : PutRejected(i)
    \/ Restart

Spec == Init /\ [][Next]_vars

\* The coordinator is not torn down and R2 takes every put: timers fire, the
\* clock moves on, puts resolve and suspended handlers resume.
NextLive ==
    \/ \E rid \in RoomIds, hasUser \in BOOLEAN, u \in Users : Connect(rid, hasUser, u)
    \/ \E op \in ToolOps, valid \in BOOLEAN, autoAdd \in BOOLEAN, found \in BOOLEAN :
          ToolRequest(op, valid, autoAdd, found)
    \/ \E p \in 1..Len(promises), ok \in BOOLEAN : LoadComplete(p, ok)
    \/ \E w \in Waiters, u \in Users, found \in BOOLEAN : Resume(w, u, found)
    \/ \E w \in Waiters : ResumeRejected(w)
    \/ \E h \in 1..Len(rooms), u \in Users : SocketUpdate(h, u)
    \/ Tick
    \/ TimerFired
    \/ \E i \in 1..Len(inflight) : PutResolved(i)

SpecLive ==
    /\ Init
    /\ [][NextLive]_vars
    /\ WF_vars(Tick)
    /\ WF_vars(TimerFired)
    /\ WF_vars(\E i \in 1..Len(inflight) : PutResolved(i))
    /\ WF_vars(\E w \in Waiters, u \in Users, found \in BOOLEAN : Resume(w, u, found))
    /\ WF_vars(\E w \in Waiters : ResumeRejected(w))

\* ------------------------------------------------- texts and records
\* A text is a sequence of pieces, each a string; it stands for their
\* concatenation.  Only BRACE holds the character "}", and only OPEN holds the
\* literal that the pattern of processTemplate starts with, so a match of
\* /\{\{miyagi-storage:([^}]+)\}\}/ on the concatenation is OPEN, one or more
\* pieces other than BRACE, BRACE, BRACE.
OPEN == "{{miyagi-storage:"
BRACE == "}"

\* Property names every object inherits from Object.prototype (one of them).
ProtoKeys == {<<"constructor">>}
\* String(Object): what String.prototype.replace makes of the function that
\* miyagiStorage["constructor"] is when the object has no own property of
\* that name.
ProtoText == <<"function Object() { [native code] ", BRACE>>

\* {} and {name: "Ann"}
NoStorage == [k \in {} |-> <<>>]
AnnStorage == [k \in {<<"name">>} |-> <<"Ann">>]

\* context.miyagiStorage[key] || ''
Lookup(ms, key) ==
    IF key \in DOMAIN ms THEN ms[key]
    ELSE IF key \in ProtoKeys THEN ProtoText
    ELSE <<>>

\* The index of the first BRACE of s at or after i, Len(s) + 1 when none.
RECURSIVE FirstBrace(_, _)
FirstBrace(s, i) ==
    IF i > Len(s) \/ s[i] = BRACE THEN i ELSE FirstBrace(s, i + 1)

\* s matches the pattern at i.
MatchAt(s, i) ==
    LET j == FirstBrace(s, i + 1)
    IN  /\ s[i] = OPEN
        /\ j >= i + 2
        /\ j + 1 <= Len(s)
        /\ s[j + 1] = BRACE

\* htmlContent.replace(pattern, (_, key) => ...) from piece i on: the
\* matches are taken left to right, they do not overlap, and a replacement
\* is not scanned again.
RECURSIVE Replace(_, _, _)
Replace(s, ms, i) ==
    IF i > Len(s) THEN <<>>
    ELSE IF MatchAt(s, i)
    THEN LET j == FirstBrace(s, i + 1)
         IN  Lookup(ms, SubSeq(s, i + 1, j - 1)) \o Replace(s, ms, j + 2)
    ELSE <<s[i]>> \o Replace(s, ms, i + 1)

\* The same without the g flag of the pattern: the first match only.
RECURSIVE ReplaceFirst(_, _, _)
ReplaceFirst(s, ms, i) ==
    IF i > Len(s) THEN <<>>
    ELSE IF MatchAt(s, i)
    THEN LET j == FirstBrace(s, i + 1)
         IN  Lookup(ms, SubSeq(s, i + 1, j - 1)) \o SubSeq(s, j + 2, Len(s))
    ELSE <<s[i]>> \o ReplaceFirst(s, ms, i + 1)

processTemplate_FirstOnly(htmlContent, miyagiStorage) ==
    ReplaceFirst(htmlContent, miyagiStorage, 1)

processTemplate(htmlContent, miyagiStorage) == Replace(htmlContent, miyagiStorage, 1)

\* getTemplateHtml('notepad'): a text with a placeholder in it.
getTemplateHtml(templateId) ==
    IF templateId = "notepad"
    THEN <<"<textarea placeholder=", OPEN, "notepad-content", BRACE, BRACE, ">">>
    ELSE <<"<h3>", templateId, "</h3>">>

\* The records clients put in the room over their sockets: two pages, the
\* second without a name, and a shape that is no widget.
PageRecords ==
    { [id |-> "page:p1", typeName |-> "page", name |-> "Page 1", index |-> "a1"],
      [id |-> "page:p2", typeName |-> "page", name |-> "", index |-> "a2"] }
GeoRecord ==
    [id |-> "shape:g1", typeName |-> "shape", type |-> "geo", parentId |-> "page:p1"]

\* The values generateId() can return (Math.random twice, in base 36).
ShapeIds == {"shape:w1", "shape:w2"}
\* Date.now(): the requests of a run fall in one millisecond.
Times == {1}

isWidget(rec) == rec.typeName = "shape" /\ rec.type = "miyagi-widget"

\* The indexes of the records with this id (at most one).
IndexOf(recs, id) == {k \in 1..Len(recs) : recs[k].id = id}

\* store.put(record) applied to the documents: a record with a new id comes
\* last, one with a known id takes the place of the record it replaces.
put(recs, rec) ==
    IF IndexOf(recs, rec.id) = {}
    THEN Append(recs, rec)
    ELSE [recs EXCEPT ![CHOOSE k \in IndexOf(recs, rec.id) : TRUE] = rec]

\* ------------------------------------------------------------- bounds
\* Changes of the record store in one run.
MaxChanges == 2

\* room.updateStore(store => store.put(rec)), or a push of rec by a client:
\* a put that changes nothing makes no diff and is dropped; any other is
\* applied and the room calls onDataChange once.
updateStore_SilentReplace(rec) ==
    IF IndexOf(store, rec.id) # {}
    THEN /\ store' = put(store, rec)
         /\ notifications' = notifications
    ELSE /\ notifications < MaxChanges
         /\ store' = put(store, rec)
         /\ notifications' = notifications + 1

updateStore(rec) ==
    IF IndexOf(store, rec.id) # {} /\ put(store, rec) = store
    THEN UNCHANGED <<store, notifications>>
    ELSE /\ notifications < MaxChanges
         /\ store' = put(store, rec)
         /\ notifications' = notifications + 1

\* ------------------------------------------------ CanvasToolHandler
\* The handlers from `await this.getRoom()` on, for a room that is loaded:
\* that await and the awaits of getTemplateHtml and of updateStore only
\* yield to microtasks, so a handler runs from there to its response in one
\* step.

\* !v for a string parameter: undefined, null or ''.
Falsy(v) == v = NULL \/ v = ""

Range(seq) == {seq[k] : k \in 1..Len(seq)}

\* snapshot.documents filtered by typeName 'page' and mapped to {id, name, index}
Pages(recs) ==
    LET F(r) == r.typeName = "page"
        ps == SelectSeq(recs, F)
    IN  [k \in 1..Len(ps) |->
            [id |-> ps[k].id,
             name |-> IF ps[k].name = "" THEN "Untitled" ELSE ps[k].name,
             index |-> ps[k].index]]

\* pages[0]?.id || null
defaultPage_Last(pages) == IF pages = <<>> THEN NULL ELSE pages[Len(pages)].id

defaultPage(pages) == IF pages = <<>> THEN NULL ELSE pages[1].id

handleGetPages ==
    /\ reply' = [op |-> "get-pages", status |-> 200, by |-> "handler",
                 pages |-> Pages(store), defaultPage |-> defaultPage(Pages(store))]
    /\ UNCHANGED <<store, notifications, subst>>
    /\ UNCHANGED lifeVars
    /\ UNCHANGED awaitVars

\* The widget shapes of the snapshot that pass the filters of get-widgets.
widgetShapes_NoPageFilter(recs, pageId, ids) ==
    LET F(r) == isWidget(r)
        G(r) == r.id \in Range(ids)
    IN  IF ids # NULL /\ Len(ids) > 0 THEN SelectSeq(SelectSeq(recs, F), G)
                                      ELSE SelectSeq(recs, F)

widgetShapes(recs, pageId, ids) ==
    LET F(r) == /\ isWidget(r)
                /\ Falsy(pageId) \/ r.parentId = pageId
        G(r) == r.id \in Range(ids)
    IN  IF ids # NULL /\ Len(ids) > 0 THEN SelectSeq(SelectSeq(recs, F), G)
                                      ELSE SelectSeq(recs, F)

\* The fields of an entry of get-widgets.
FieldNames == {"htmlContent", "miyagiStorage", "position", "size", "properties"}
Included(fields) ==
    {"id", "widgetId", "templateId"}
        \cup {f \in FieldNames : fields = NULL \/ f \in Range(fields)}

FieldValue_StorageBefore(shape, f) ==
    CASE f = "id" -> shape.id
      [] f = "widgetId" -> shape.props.widgetId
      [] f = "templateId" -> shape.props.templateId
      [] f = "htmlContent" -> shape.props.htmlContent
      [] f = "miyagiStorage" -> NoStorage
      [] f = "position" -> [x |-> shape.x, y |-> shape.y]
      [] f = "size" -> [w |-> shape.props.w, h |-> shape.props.h]
      [] f = "properties" -> shape.props

FieldValue(shape, f) ==
    CASE f = "id" -> shape.id
      [] f = "widgetId" -> shape.props.widgetId
      [] f = "templateId" -> shape.props.templateId
      [] f = "htmlContent" -> shape.props.htmlContent
      [] f = "miyagiStorage" -> shape.props.miyagiStorage
      [] f = "position" -> [x |-> shape.x, y |-> shape.y]
      [] f = "size" -> [w |-> shape.props.w, h |-> shape.props.h]
      [] f = "properties" -> shape.props

Widget(shape, fields) == [f \in Included(fields) |-> FieldValue(shape, f)]

\* pageId, ids (the pieces of the parameter between its commas, NULL when
\* the parameter is not there) and fields (the same) are the parameters of
\* the query.
handleGetWidgets(pageId, ids, fields) ==
    /\ LET ws == widgetShapes(store, pageId, ids)
       IN  reply' = [op |-> "get-widgets", status |-> 200, by |-> "handler",
                     widgets |-> [k \in 1..Len(ws) |-> Widget(ws[k], fields)],
                     pageId |-> IF Falsy(pageId) THEN "page:page" ELSE pageId]
    /\ UNCHANGED <<store, notifications, subst>>
    /\ UNCHANGED lifeVars
    /\ UNCHANGED awaitVars

\* The shape add-widget makes: shapeId from generateId(), now from Date.now().
newShape_DefaultPage(shapeId, templateId, pageId, now) ==
    [id |-> shapeId, typeName |-> "shape", type |-> "miyagi-widget",
     parentId |-> IF ~Falsy(pageId) THEN pageId
                  ELSE IF defaultPage(Pages(store)) = NULL THEN "page:page"
                  ELSE defaultPage(Pages(store)),
     index |-> "a1", x |-> 300, y |-> 200,
     props |-> [w |-> 300, h |-> 200,
                widgetId |-> <<templateId, now>>,
                templateId |-> templateId,
                htmlContent |-> getTemplateHtml(templateId),
                miyagiStorage |-> NoStorage]]

newShape(shapeId, templateId, pageId, now) ==
    [id |-> shapeId, typeName |-> "shape", type |-> "miyagi-widget",
     parentId |-> IF Falsy(pageId) THEN "page:page" ELSE pageId,
     index |-> "a1", x |-> 300, y |-> 200,
     props |-> [w |-> 300, h |-> 200,
                widgetId |-> <<templateId, now>>,
                templateId |-> templateId,
                htmlContent |-> getTemplateHtml(templateId),
                miyagiStorage |-> NoStorage]]

handleAddWidget(templateId, pageId, shapeId, now) ==
    /\ IF Falsy(templateId)
       THEN /\ reply' = Resp("add-widget", 400, "Missing templateId")
            /\ UNCHANGED <<store, notifications>>
       ELSE /\ updateStore(newShape(shapeId, templateId, pageId, now))
            /\ reply' = [op |-> "add-widget", status |-> 200, by |-> "handler",
                         success |-> TRUE, shapeId |-> shapeId,
                         widgetId |-> <<templateId, now>>, templateId |-> templateId]
    /\ UNCHANGED subst
    /\ UNCHANGED lifeVars
    /\ UNCHANGED awaitVars

\* allRecords.find(...): the indexes of the widget shapes with this id.
FindWidget(recs, shapeId) == {k \in IndexOf(recs, shapeId) : isWidget(recs[k])}

\* The record edit-widget writes back.
updatedShape_KeepsStorage(shape, processedHtml, preserveStorage) ==
    [shape EXCEPT !.props.htmlContent = processedHtml]

updatedShape(shape, processedHtml, preserveStorage) ==
    [shape EXCEPT !.props.htmlContent = processedHtml,
                  !.props.miyagiStorage = IF preserveStorage THEN @ ELSE NoStorage]

handleEditWidgetHtml(shapeId, htmlContent, preserveStorage) ==
    /\ IF htmlContent = <<>>
       THEN /\ reply' = Resp("edit-widget", 400, "Missing htmlContent")
            /\ UNCHANGED <<store, notifications>>
       ELSE IF FindWidget(store, shapeId) = {}
       THEN /\ reply' = Resp("edit-widget", 404, "Widget shape not found")
            /\ UNCHANGED <<store, notifications>>
       ELSE LET shape == store[CHOOSE k \in FindWidget(store, shapeId) : TRUE]
                processedHtml == processTemplate(htmlContent, shape.props.miyagiStorage)
            IN  /\ updateStore(updatedShape(shape, processedHtml, preserveStorage))
                /\ reply' = [op |-> "edit-widget", status |-> 200, by |-> "handler",
                             success |-> TRUE, processedHtml |-> processedHtml]
    /\ UNCHANGED subst
    /\ UNCHANGED lifeVars
    /\ UNCHANGED awaitVars

\* generateBasicWidget(prompt): the prompt is searched for 'calculator',
\* 'todo' and 'task'; the prompts here are one word.
generateBasicWidget(prompt) ==
    IF prompt = "calculator" THEN <<"<h3>Calculator</h3>">>
    ELSE IF prompt \in {"todo", "task"} THEN <<"<h3>Todo List</h3>">>
    ELSE <<"<h3>Generated Widget</h3><p>", prompt, "</p>">>

\* The shape generate-widget makes when autoAdd is set.
generatedShape(shapeId, htmlContent, pageId, now) ==
    [id |-> shapeId, typeName |-> "shape", type |-> "miyagi-widget",
     parentId |-> IF Falsy(pageId) THEN "page:page" ELSE pageId,
     index |-> "a1", x |-> 400, y |-> 300,
     props |-> [w |-> 300, h |-> 200,
                widgetId |-> <<"generated", now>>,
                templateId |-> "generated-widget",
                htmlContent |-> htmlContent,
                miyagiStorage |-> NoStorage]]

handleGenerateWidget(prompt, pageId, autoAdd, shapeId, now) ==
    /\ IF Falsy(prompt)
       THEN /\ reply' = Resp("generate-widget", 400, "Missing prompt")
            /\ UNCHANGED <<store, notifications>>
       ELSE LET htmlContent == generateBasicWidget(prompt)
                result == [op |-> "generate-widget", status |-> 200, by |-> "handler",
                           htmlContent |-> htmlContent, templateId |-> "generated-widget"]
            IN  IF autoAdd
                THEN /\ updateStore(generatedShape(shapeId, htmlContent, pageId, now))
                     /\ reply' = [f \in DOMAIN result \cup {"shapeId", "widgetId"} |->
                                     IF f = "shapeId" THEN shapeId
                                     ELSE IF f = "widgetId" THEN <<"generated", now>>
                                     ELSE result[f]]
                ELSE /\ reply' = result
                     /\ UNCHANGED <<store, notifications>>
    /\ UNCHANGED subst
    /\ UNCHANGED lifeVars
    /\ UNCHANGED awaitVars

\* PUT .../update-storage/:shapeId: the route calls handleUpdateWidgetStorage,
\* which CanvasToolHandler does not have; the TypeError is caught by the
\* router.
handleUpdateWidgetStorage(shapeId, storageData, merge) ==
    /\ reply' = RouterError("update-storage", "not a function")
    /\ UNCHANGED <<store, notifications, subst>>
    /\ UNCHANGED lifeVars
    /\ UNCHANGED awaitVars

\* A client pushes a record over its socket: a page, a shape, or a widget
\* of the room with its storage set by the widget's own script.
SocketRecords ==
    PageRecords \cup {GeoRecord}
       \cup {[store[k] EXCEPT !.props.miyagiStorage = AnnStorage] :
                k \in {i \in 1..Len(store) : isWidget(store[i])}}

SocketPut(rec) ==
    /\ rec \in SocketRecords
    /\ updateStore(rec)
    /\ UNCHANGED <<reply, subst>>
    /\ UNCHANGED lifeVars
    /\ UNCHANGED awaitVars

\* The parameters the requests are made with.
TemplateIds == {"", "notepad"}
PageParams == {NULL, "page:p1"}
FilterPages == {NULL, "page:p1", "page:page"}
FilterIds == {NULL, <<"shape:w1">>}
FilterFields == {NULL, <<"miyagiStorage">>}
EditHtmls ==
    { <<>>,
      <<"Hi ", OPEN, "name", BRACE, BRACE, "!">>,
      <<"Hi ", "{{ns:", "name", BRACE, BRACE, "!">>,
      <<OPEN, "constructor", BRACE, BRACE>> }
StorageDatas == {[k \in {<<"a">>} |-> <<"1">>]}
Prompts == {"", "clock"}

\* A coordinator whose room is bound and loaded, with a client connected.
LoadedRoom ==
    /\ roomId = "r1"
    /\ storage = "r1"
    /\ roomPromise = 1
    /\ promises = <<[state |-> "fulfilled", key |-> Key("r1"), room |-> 1]>>
    /\ rooms = <<[doc |-> 0, sessions |-> {"u1"}]>>
    /\ loads = 1
    /\ r2 = [k \in Keys |-> Absent]
    /\ waiting = EmptyBag
    /\ lastResp = Resp("connect", 101, "none")
    /\ thr = ThrInit
    /\ inflight = <<>>
    /\ mutations = 0
    /\ sinceSave = -1
    /\ unsaved = FALSE
    /\ putFailed = FALSE

\* The snapshots the room is loaded from: none (an empty room), or one a
\* run before it saved, with page p1 and on it a notepad widget whose
\* script has stored a name.
Snapshots ==
    { <<>>,
      << [id |-> "page:p1", typeName |-> "page", name |-> "Page 1", index |-> "a1"],
         [newShape("shape:w1", "notepad", "page:p1", 1)
             EXCEPT !.props.miyagiStorage = AnnStorage] >> }

InitTools ==
    /\ LoadedRoom
    /\ store \in Snapshots
    /\ reply = NoReply
    /\ notifications = 0
    /\ subst = [html |-> <<>>, miyagiStorage |-> <<>>, out |-> <<>>]
    /\ NoneArrived

NextTools ==
    \/ handleGetPages
    \/ \E pageId \in FilterPages, ids \in FilterIds, fields \in FilterFields :
          handleGetWidgets(pageId, ids, fields)
    \/ \E templateId \in TemplateIds, pageId \in PageParams, shapeId \in ShapeIds,
          now \in Times : handleAddWidget(templateId, pageId, shapeId, now)
    \/ \E shapeId \in ShapeIds \cup {GeoRecord.id}, htmlContent \in EditHtmls,
          preserveStorage \in BOOLEAN :
          handleEditWidgetHtml(shapeId, htmlContent, preserveStorage)
    \/ \E prompt \in Prompts, pageId \in PageParams, autoAdd \in BOOLEAN,
          shapeId \in ShapeIds, now \in Times :
          handleGenerateWidget(prompt, pageId, autoAdd, shapeId, now)
    \/ \E shapeId \in ShapeIds, storageData \in StorageDatas, merge \in BOOLEAN :
          handleUpdateWidgetStorage(shapeId, storageData, merge)
    \/ \E rec \in SocketRecords : SocketPut(rec)

SpecTools == InitTools /\ [][NextTools]_vars

\* ------------------------------------------------- processTemplate alone
\* The longest text given to processTemplate, in pieces.
MaxTextLen == 8
\* The times processTemplate is run on a text, each on the result before.
MaxPasses == 2

Alphabet == {OPEN, "name", BRACE}
Texts == UNION {[1..n -> Alphabet] : n \in 0..MaxTextLen}

InitTemplate ==
    /\ LoadedRoom
    /\ store = <<>>
    /\ reply = NoReply
    /\ notifications = 0
    /\ subst \in [html : Texts, miyagiStorage : {NoStorage, AnnStorage}, out : {<<>>}]
    /\ NoneArrived

\* One more run of processTemplate, on the text or on the result before.
Substitute ==
    /\ Len(subst.out) < MaxPasses
    /\ subst' = [subst EXCEPT !.out =
                    Append(@, processTemplate(IF @ = <<>> THEN subst.html ELSE @[Len(@)],
                                              subst.miyagiStorage))]
    /\ UNCHANGED <<store, reply, notifications>>
    /\ UNCHANGED lifeVars
    /\ UNCHANGED awaitVars

NextTemplate == Substitute

SpecTemplate == InitTemplate /\ [][NextTemplate]_vars

\* ------------------------------------ handlers that awaited the room
\* Tool requests that arrive while the room is being made suspend in
\* `await this.getRoom()` on the one construction promise.  When it is
\* fulfilled their continuations are queued in the order of arrival and run
\* one after the other before any other event; each runs until its handler
\* awaits again, and what the handler awaits next queues behind the
\* continuations already there.  room.updateStore(updater) takes its
\* snapshot and runs the updater at the call, and applies the puts that
\* differ from that snapshot after its own `await updater(context)`.

\* The requests: edits of widget w1 with a text, and adds.
Requests ==
    [op : {"edit-widget"}, shapeId : {"shape:w1"}, htmlContent : EditHtmls \ {<<>>},
     preserveStorage : BOOLEAN]
       \cup [op : {"add-widget"}, templateId : {"notepad"}, pageId : PageParams,
             shapeId : {"shape:w2"}, now : Times]

\* A handler suspended at an await: at is what it awaits.
Job(at, req) == [at |-> at, req |-> req]

\* The record the handler of req gives to store.put, reading recs.
Written(recs, req) ==
    IF req.op = "edit-widget"
    THEN LET shape == recs[CHOOSE k \in FindWidget(recs, req.shapeId) : TRUE]
         IN  updatedShape(shape,
                          processTemplate(req.htmlContent, shape.props.miyagiStorage),
                          req.preserveStorage)
    ELSE newShape(req.shapeId, req.templateId, req.pageId, req.now)

\* The handler calls room.updateStore(store => store.put(rec)): the put is
\* kept when rec is not the record the snapshot has, and applied later.
CallUpdateStore(req, rec) ==
    [at |-> "updateStore", req |-> req, rec |-> rec,
     changed |-> ~(IndexOf(store, rec.id) # {} /\ put(store, rec) = store)]

InitAwait ==
    /\ LoadedRoom
    /\ arrived \in {[store |-> s, requests |-> q] :
                       s \in Snapshots,
                       q \in UNION {[1..n -> Requests] : n \in 1..MaxWaiting}}
    /\ store = arrived.store
    /\ microtasks = [k \in DOMAIN arrived.requests |-> Job("getRoom", arrived.requests[k])]
    /\ reply = NoReply
    /\ notifications = 0
    /\ subst = [html |-> <<>>, miyagiStorage |-> <<>>, out |-> <<>>]

\* The handler first in the queue resumes from `await this.getRoom()`.
\* edit_widget_html reads the snapshot, answers 404 or builds the record and
\* calls updateStore; add_widget goes on to `await this.getTemplateHtml()`.
ResumeFromGetRoom ==
    /\ microtasks # <<>>
    /\ Head(microtasks).at = "getRoom"
    /\ LET req == Head(microtasks).req
       IN  IF req.op = "add-widget"
           THEN /\ microtasks' = Append(Tail(microtasks), Job("getTemplateHtml", req))
                /\ reply' = reply
           ELSE IF FindWidget(store, req.shapeId) = {}
           THEN /\ microtasks' = Tail(microtasks)
                /\ reply' = Resp("edit-widget", 404, "Widget shape not found")
           ELSE /\ microtasks' = Append(Tail(microtasks),
                                        CallUpdateStore(req, Written(store, req)))
                /\ reply' = reply
    /\ UNCHANGED <<store, notifications, subst, arrived>>
    /\ UNCHANGED lifeVars

\* add_widget resumes from `await this.getTemplateHtml(templateId)`, builds
\* the record and calls updateStore.
ResumeFromGetTemplateHtml ==
    /\ microtasks # <<>>
    /\ Head(microtasks).at = "getTemplateHtml"
    /\ LET req == Head(microtasks).req
       IN  microtasks' = Append(Tail(microtasks), CallUpdateStore(req, Written(store, req)))
    /\ UNCHANGED <<store, reply, notifications, subst, arrived>>
    /\ UNCHANGED lifeVars

\* updateStore resumes from `await updater(context)` and applies the put it
\* kept; the handler then answers.
ResumeFromUpdater ==
    /\ microtasks # <<>>
    /\ Head(microtasks).at = "updateStore"
    /\ LET job == Head(microtasks)
       IN  /\ IF job.changed THEN updateStore(job.rec)
                              ELSE UNCHANGED <<store, notifications>>
           /\ reply' = IF job.req.op = "edit-widget"
                       THEN [op |-> "edit-widget", status |-> 200, by |-> "handler",
                             success |-> TRUE,
                             processedHtml |-> job.rec.props.htmlContent]
                       ELSE [op |-> "add-widget", status |-> 200, by |-> "handler",
                             success |-> TRUE, shapeId |-> job.req.shapeId,
                             widgetId |-> <<job.req.templateId, job.req.now>>,
                             templateId |-> job.req.templateId]
    /\ microtasks' = Tail(microtasks)
    /\ UNCHANGED <<subst, arrived>>
    /\ UNCHANGED lifeVars

NextAwait ==
    \/ ResumeFromGetRoom
    \/ ResumeFromGetTemplateHtml
    \/ ResumeFromUpdater

SpecAwait == InitAwait /\ [][NextAwait]_vars

\* ------------------------------------------------------------- claims
\* A run of the save function started in this step (it issued its r2.put).
SaveStarts == Len(inflight') = Len(inflight) + 1

\* C1: for a bound coordinator every getRoom call, made while the
\* construction is outstanding or after it, gets the same single room: there
\* is at most one construction promise and at most one room instance, every
\* suspended handler awaits the memoized promise, and it resolves to that one
\* room, so a write through one handle is read through any other.
C1_SingleRoom ==
    /\ Len(rooms) <= 1
    /\ Len(promises) <= 1
    /\ \A w \in BagToSet(waiting) : w.p = roomPromise
    /\ \A i \in 1..Len(promises) :
          promises[i].state = "fulfilled" => promises[i].room = 1 /\ Len(rooms) = 1

\* Two handlers called getRoom while the construction was outstanding; one
\* has written through its room and a reader still holds the same room.
C1_Witness ==
    /\ Len(rooms) = 1
    /\ rooms[1].doc >= 1
    /\ \E w \in BagToSet(waiting) :
          w.op \in ReadOps /\ promises[w.p].state = "fulfilled" /\ promises[w.p].room = 1

\* C2: r2.get is issued at most once in the lifetime of a coordinator
\* instance, whatever connects, tool requests and saves call getRoom, and
\* no load is outstanding once the room was made.
C2_LoadOnce ==
    /\ loads <= 1
    /\ rooms # <<>> => \A i \in 1..Len(promises) : promises[i].state # "pending"

\* One load, after a connect, a tool request and a save all went through getRoom.
C2_Witness ==
    /\ loads = 1
    /\ Len(rooms) = 1
    /\ rooms[1].sessions # {}
    /\ inflight # <<>>
    /\ lastResp = Resp("add-widget", 200, "none")

\* C3: any two runs of the save function start at least `wait` ms apart.
C3_SavesApart == [][SaveStarts => sinceSave = -1 \/ sinceSave >= wait]_vars

\* This step is a change notification (a call of schedulePersistToR2).
Notified == mutations' = mutations + 1

\* This step is the expiry of the timer of throttle.
TimerStep == thr.timerId = 0 /\ mutations' = mutations /\ thr' # thr /\ rooms' = rooms

\* C4, as claimed: the notifications of one throttle window produce one
\* save only, started at window close (the expiry of the timer).
C4_OneSaveAtWindowClose == [][SaveStarts => TimerStep]_vars

\* C4, amended: a notification that comes less than `wait` after the
\* previous notification and after the previous save starts no save, and
\* leaves one trailing save scheduled; the expiry of the timer with
\* notifications coalesced starts exactly one save and clears the timer; and
\* every save, leading or trailing, puts the room as it is when it starts
\* (the state after the last mutation, under rooms/<roomId>).
C4_Coalesced ==
    [][/\ (Notified /\ thr.sinceCall # -1 /\ thr.sinceCall < wait /\ thr.sinceInvoke < wait)
            => /\ inflight' = inflight
               /\ thr'.lastArgs
               /\ thr'.timerId > 0
       /\ (TimerStep /\ thr.lastArgs)
            => /\ SaveStarts
               /\ ~thr'.lastArgs
               /\ thr'.timerId = -1
       /\ SaveStarts
            => /\ SubSeq(inflight', 1, Len(inflight)) = inflight
               /\ inflight'[Len(inflight')] = [snap |-> rooms'[1].doc, key |-> Key(roomId)]
               /\ rooms'[1].doc = mutations'
      ]_vars

\* A trailing save of the state after the second of two mutations is in
\* flight behind the leading save of the state after the first.
C4_Witness ==
    /\ Len(inflight) = 2
    /\ inflight[1].snap = 1
    /\ inflight[2].snap = 2
    /\ mutations = 2
    /\ thr.timerId = -1
    /\ sinceSave = 0

\* C6: at most one save (r2.put) is in flight for the room.
C6_OneSaveInFlight == Len(inflight) <= 1

\* C7: a rejected r2.put leaves the room, the bucket and the throttle as
\* they are and starts no other put; and the throttle is never stuck: every
\* notification not yet followed by a save has its trailing save scheduled,
\* and a notification with the throttle idle starts a save at once.
C7_FailedSave ==
    /\ [](unsaved => thr.lastArgs /\ thr.timerId # -1)
    /\ [][/\ (\E i \in 1..Len(inflight) : PutRejected(i))
               => /\ rooms' = rooms
                  /\ r2' = r2
                  /\ thr' = thr
                  /\ Len(inflight') = Len(inflight) - 1
                  /\ unsaved' = unsaved
          /\ (Notified /\ thr.timerId = -1 /\ (thr.sinceCall = -1 \/ thr.sinceCall >= wait))
               => SaveStarts
         ]_vars

\* The only put so far was rejected, nothing reached the bucket, and the
\* notification after it started a new save.
C7_Witness ==
    /\ putFailed
    /\ \A k \in Keys : r2[k] = Absent
    /\ Len(inflight) = 1
    /\ inflight[1].snap = 2
    /\ Len(rooms) = 1
    /\ rooms[1].doc = 2

\* C5: with the coordinator up and R2 available, every change
\* notification is followed by a save started at or after it: a save whose
\* snapshot is the room after the newest mutation.
C5_TrailingSave ==
    /\ unsaved ~> ~unsaved
    /\ [][unsaved /\ ~unsaved'
            => /\ SaveStarts
               /\ inflight'[Len(inflight')].snap = mutations']_vars

\* The timer has just fired the trailing save of a coalesced notification.
C5_Witness ==
    /\ ~unsaved
    /\ sinceSave = 0
    /\ thr.timerId = -1
    /\ thr.sinceCall > 0
    /\ inflight # <<>>
    /\ inflight[Len(inflight)].snap = mutations

\* C8: getRoom called while no identifier is bound throws 'Missing roomId',
\* issues no load and memoizes nothing: an unbound coordinator has no
\* construction promise, no load and no room, and a tool request that
\* reaches getRoom on it is answered with that error and leaves the memo as
\* it is.
C8_MissingRoomId ==
    /\ [](roomId = NULL =>
            roomPromise = 0 /\ promises = <<>> /\ loads = 0 /\ rooms = <<>>)
    /\ [][\A op \in ToolOps, valid \in BOOLEAN, autoAdd \in BOOLEAN, found \in BOOLEAN :
            (roomId = NULL /\ ReachesGetRoom(op, valid, autoAdd)
               /\ ToolRequest(op, valid, autoAdd, found))
            => /\ lastResp' = Resp(op, 500, "Missing roomId")
               /\ UNCHANGED <<roomPromise, promises, loads, rooms, waiting>>]_vars

\* A tool request failed for the missing identifier, and the getRoom of the
\* connect that bound it afterwards made the room.
C8_Witness ==
    /\ lastResp = Resp("get-pages", 500, "Missing roomId")
    /\ roomId # NULL
    /\ loads = 1
    /\ Len(rooms) = 1
    /\ promises[roomPromise].state = "fulfilled"

\* Every key of a load, of a save in flight and of a snapshot in the bucket
\* is the key of the identifier in storage.
KeysOfBinding ==
    /\ \A i \in 1..Len(promises) : promises[i].key = Key(storage)
    /\ \A i \in 1..Len(inflight) : inflight[i].key = Key(storage)
    /\ \A k \in Keys : r2[k] # Absent => k = Key(storage)

\* C9: the identifier is bound once: memory and storage agree, a bound
\* identifier never changes whatever connects arrive, a restart reads the
\* same identifier back, and every load and save uses rooms/<roomId>.
C9_BoundOnce ==
    /\ []((roomId # NULL => roomId = storage) /\ KeysOfBinding)
    /\ [][/\ storage # NULL => storage' = storage
          /\ roomId # NULL => roomId' = roomId]_vars

\* After a restart the coordinator, bound to r1, loaded the snapshot that the
\* instance before it saved, and then answered a connect.
C9_Witness ==
    /\ roomId = "r1"
    /\ storage = "r1"
    /\ sinceSave = -1
    /\ Len(rooms) = 1
    /\ rooms[1].doc >= 1
    /\ r2[Key("r1")] = rooms[1].doc
    /\ lastResp = Resp("connect", 101, "none")

\* C10: a tool request that reaches an unbound coordinator binds the
\* identifier and is served against the room.
C10_ToolCallBinds ==
    [][\A op \in ToolOps, valid \in BOOLEAN, autoAdd \in BOOLEAN, found \in BOOLEAN :
         (roomId = NULL /\ ToolRequest(op, valid, autoAdd, found))
         => roomId' # NULL /\ lastResp'.error # "Missing roomId"]_vars

\* C11: a load that fails makes no room: while the construction promise is
\* rejected there is no room, no save was started or is in flight, and every
\* handler that awaited the room leaves with the failure, a tool handler
\* with its own {success: false, error} answer.
C11_LoadFailure ==
    /\ [](\A i \in 1..Len(promises) :
             promises[i].state = "rejected"
                => rooms = <<>> /\ inflight = <<>> /\ sinceSave = -1 /\ ~unsaved)
    /\ [][((\E w \in Waiters : promises[w.p].state = "rejected") /\ waiting' # waiting)
            => /\ BagCardinality(waiting') = BagCardinality(waiting) - 1
               /\ lastResp'.status = 500
               /\ lastResp'.error = "load failed"
               /\ lastResp'.op \in ToolOps => lastResp'.by = "handler"
               /\ rooms' = <<>>
               /\ inflight' = <<>>]_vars

\* Two tool requests awaited the room when the load failed; the first of
\* them has been answered with the failure.
C11_Witness ==
    /\ \E w \in Waiters : promises[w.p].state = "rejected" /\ w.op \in ToolOps
    /\ lastResp = Resp("add-widget", 500, "load failed")
    /\ rooms = <<>>

\* C12: every tool operation ends with an answer built by its handler, its
\* payload or {success: false, error}: no failure is answered by the router.
C12_StructuredFailures == lastResp.op \in ToolOps => lastResp.by = "handler"

\* The request of this step was refused by its handler: the answer is the
\* handler's {success: false, error}, the record store is as it was and
\* onDataChange was not called.
C13_Refused ==
    /\ reply'.by = "handler"
    /\ reply'.status \in {400, 404}
    /\ store' = store
    /\ notifications' = notifications

\* C13: add_widget without templateId, edit_widget_html without
\* htmlContent, generate_widget without prompt, and edit_widget_html or
\* update_widget_storage for a shapeId that is no widget of the room, are
\* refused with a structured failure, change no record and notify nothing.
C13_RejectedRequests ==
    [][/\ \A templateId \in {NULL, ""}, pageId \in PageParams, shapeId \in ShapeIds,
             now \in Times :
             handleAddWidget(templateId, pageId, shapeId, now) => C13_Refused
       /\ \A shapeId \in ShapeIds \cup {GeoRecord.id}, preserveStorage \in BOOLEAN :
             handleEditWidgetHtml(shapeId, <<>>, preserveStorage) => C13_Refused
       /\ \A prompt \in {NULL, ""}, pageId \in PageParams, autoAdd \in BOOLEAN,
             shapeId \in ShapeIds, now \in Times :
             handleGenerateWidget(prompt, pageId, autoAdd, shapeId, now) => C13_Refused
       /\ \A shapeId \in ShapeIds \cup {GeoRecord.id}, htmlContent \in EditHtmls,
             preserveStorage \in BOOLEAN :
             (FindWidget(store, shapeId) = {}
                /\ handleEditWidgetHtml(shapeId, htmlContent, preserveStorage))
             => C13_Refused
       /\ \A shapeId \in ShapeIds \cup {GeoRecord.id}, storageData \in StorageDatas,
             merge \in BOOLEAN :
             (FindWidget(store, shapeId) = {}
                /\ handleUpdateWidgetStorage(shapeId, storageData, merge))
             => C13_Refused
      ]_vars

\* The room was empty and every change of it so far was an add_widget that
\* added a record: the store holds the widgets of the adds, as they made them.
C14_OnlyAdds ==
    /\ Len(store) = notifications
    /\ \A k \in 1..Len(store) :
          \E templateId \in TemplateIds, now \in Times :
             store[k] = newShape(store[k].id, templateId, store[k].parentId, now)

C15_Merged(old, storageData, merge) ==
    IF merge
    THEN [k \in DOMAIN old \cup DOMAIN storageData |->
             IF k \in DOMAIN storageData THEN storageData[k] ELSE old[k]]
    ELSE storageData

\* C15: update_widget_storage on a widget of the room leaves its storage
\* merged with storageData (merge) or equal to storageData (no merge).
C15_StorageUpdate ==
    [][\A shapeId \in ShapeIds, storageData \in StorageDatas, merge \in BOOLEAN :
          (FindWidget(store, shapeId) # {}
             /\ handleUpdateWidgetStorage(shapeId, storageData, merge))
          => \A k \in FindWidget(store, shapeId) :
                store'[k].props.miyagiStorage =
                    C15_Merged(store[k].props.miyagiStorage, storageData, merge)
      ]_vars

\* The text with every placeholder {{namespace:key}} replaced by the value
\* of key in the storage, by nothing when the storage has no such key.
RECURSIVE C16_Substituted(_, _, _)
C16_Substituted(s, ms, i) ==
    IF i > Len(s) THEN <<>>
    ELSE LET j == FirstBrace(s, i + 1)
         IN  IF /\ s[i] \in {OPEN, "{{ns:"}
                /\ j >= i + 2
                /\ j + 1 <= Len(s)
                /\ s[j + 1] = BRACE
             THEN (IF SubSeq(s, i + 1, j - 1) \in DOMAIN ms
                   THEN ms[SubSeq(s, i + 1, j - 1)] ELSE <<>>)
                  \o C16_Substituted(s, ms, j + 2)
             ELSE <<s[i]>> \o C16_Substituted(s, ms, i + 1)

\* C16: a successful edit_widget_html stores, and returns, the submitted
\* text with every placeholder replaced from the storage the widget has, a
\* key that is not there giving the empty string.
C16_StoresSubstituted ==
    [][\A shapeId \in ShapeIds, htmlContent \in EditHtmls, preserveStorage \in BOOLEAN :
          (reply'.op = "edit-widget" /\ reply'.status = 200
             /\ handleEditWidgetHtml(shapeId, htmlContent, preserveStorage))
          => \A k \in FindWidget(store, shapeId) :
                LET want == C16_Substituted(htmlContent, store[k].props.miyagiStorage, 1)
                IN  /\ store'[k].props.htmlContent = want
                    /\ reply'.processedHtml = want
      ]_vars

\* C17: a successful edit_widget_html leaves the storage of the widget empty
\* unless preserveStorage is set, and then as it was; apart from htmlContent
\* and the storage the record is as it was, and so is every other record.
C17_StorageAfterEdit ==
    [][\A shapeId \in ShapeIds, htmlContent \in EditHtmls, preserveStorage \in BOOLEAN :
          (reply'.op = "edit-widget" /\ reply'.status = 200
             /\ handleEditWidgetHtml(shapeId, htmlContent, preserveStorage))
          => /\ Len(store') = Len(store)
             /\ \A k \in 1..Len(store) :
                   IF k \in FindWidget(store, shapeId)
                   THEN /\ store'[k].props.miyagiStorage =
                              (IF preserveStorage THEN store[k].props.miyagiStorage
                                                  ELSE NoStorage)
                        /\ store'[k] =
                              [store[k] EXCEPT
                                  !.props.htmlContent = store'[k].props.htmlContent,
                                  !.props.miyagiStorage = store'[k].props.miyagiStorage]
                   ELSE store'[k] = store[k]
      ]_vars

\* An edit has substituted the name the storage held and left the storage
\* of the widget empty.
C17_Witness ==
    /\ reply.op = "edit-widget"
    /\ reply.status = 200
    /\ reply.processedHtml = <<"Hi ", "Ann", "!">>
    /\ \E k \in 1..Len(store) :
          /\ isWidget(store[k])
          /\ store[k].props.htmlContent = <<"Hi ", "Ann", "!">>
          /\ store[k].props.miyagiStorage = NoStorage
          /\ store[k].props.templateId = "notepad"

\* The keys of the placeholders of s from piece i on.
RECURSIVE KeysIn(_, _)
KeysIn(s, i) ==
    IF i > Len(s) THEN {}
    ELSE IF MatchAt(s, i)
    THEN {SubSeq(s, i + 1, FirstBrace(s, i + 1) - 1)}
            \cup KeysIn(s, FirstBrace(s, i + 1) + 2)
    ELSE KeysIn(s, i + 1)

\* The pieces of s from i on that are in no placeholder.
RECURSIVE Outside(_, _)
Outside(s, i) ==
    IF i > Len(s) THEN <<>>
    ELSE IF MatchAt(s, i) THEN Outside(s, FirstBrace(s, i + 1) + 2)
    ELSE <<s[i]>> \o Outside(s, i + 1)

\* processTemplate was run twice on a text none of whose keys is in the storage.
C18_TwiceKeysAbsent ==
    /\ Len(subst.out) >= 2
    /\ KeysIn(subst.html, 1) \cap DOMAIN subst.miyagiStorage = {}

\* C18, as claimed: when the keys referenced are absent from the storage,
\* a second run of processTemplate changes nothing.
C18_Idempotent == C18_TwiceKeysAbsent => subst.out[2] = subst.out[1]

\* C18, amended: when the keys referenced are absent from the storage and
\* the text has no closing brace outside its placeholders, a second run of
\* processTemplate changes nothing.
C18_IdempotentClosed ==
    (C18_TwiceKeysAbsent /\ BRACE \notin Range(Outside(subst.html, 1)))
       => subst.out[2] = subst.out[1]

\* Two runs on a text with a placeholder, a piece before it and an opening
\* after it that no brace closes: the first took the placeholder out, the
\* second found nothing to do.
C18_Witness ==
    /\ subst.html = <<"name", OPEN, "name", BRACE, BRACE, OPEN>>
    /\ subst.miyagiStorage = NoStorage
    /\ subst.out = << <<"name", OPEN>>, <<"name", OPEN>> >>

\* C19: list_pages answers with one {id, name, index} entry for each page
\* record of the store, in the order of the store, and with defaultPage
\* the id of the first of them, null when there is none; it changes nothing.
C19_ListPages ==
    [][(reply'.op = "get-pages" /\ handleGetPages)
         => LET pg == reply'.pages
                idx == {k \in 1..Len(store) : store[k].typeName = "page"}
            IN  /\ Len(pg) = Cardinality(idx)
                /\ \A a \in 1..Len(pg) :
                      \E k \in idx :
                         /\ Cardinality({k2 \in idx : k2 < k}) = a - 1
                         /\ pg[a].id = store[k].id
                         /\ pg[a].index = store[k].index
                         /\ pg[a].name = (IF store[k].name = "" THEN "Untitled"
                                                                ELSE store[k].name)
                /\ reply'.defaultPage = (IF idx = {} THEN NULL ELSE pg[1].id)
                /\ store' = store
                /\ notifications' = notifications
      ]_vars

\* Page p2 was put after page p1 and a widget; list_pages gave both pages
\* and p1 as the default.
C19_Witness ==
    /\ reply.op = "get-pages"
    /\ Len(reply.pages) = 2
    /\ reply.pages[1].id = "page:p1"
    /\ reply.pages[2] = [id |-> "page:p2", name |-> "Untitled", index |-> "a2"]
    /\ reply.defaultPage = "page:p1"
    /\ Len(store) = 3
    /\ isWidget(store[2])
    /\ store[3].id = "page:p2"

\* C20: list_widgets answers with the widget shapes of the store, those of
\* the page asked for when a pageId is given and those named when ids are
\* given, each once; the pageId it returns is the one given or the literal
\* 'page:page', whatever pages the room has; it changes nothing.
C20_ListWidgets ==
    [][\A pageId \in FilterPages, ids \in FilterIds, fields \in FilterFields :
          (/\ reply'.op = "get-widgets"
           /\ handleGetWidgets(pageId, ids, fields))
          => LET want == {k \in 1..Len(store) :
                             /\ store[k].typeName = "shape"
                             /\ store[k].type = "miyagi-widget"
                             /\ ~Falsy(pageId) => store[k].parentId = pageId
                             /\ ids # NULL => store[k].id \in Range(ids)}
                 got == reply'.widgets
             IN  /\ Len(got) = Cardinality(want)
                 /\ {got[a].id : a \in 1..Len(got)} = {store[k].id : k \in want}
                 /\ reply'.pageId = (IF Falsy(pageId) THEN "page:page" ELSE pageId)
                 /\ store' = store
                 /\ notifications' = notifications
      ]_vars

\* list_widgets without a filter, in a room whose only page is p1 and that
\* has a shape that is no widget: it gave the one widget, which is on p1,
\* and 'page:page'.
C20_Witness ==
    /\ reply.op = "get-widgets"
    /\ reply.pageId = "page:page"
    /\ Len(reply.widgets) = 1
    /\ Len(store) = 3
    /\ \E a, b, c \in 1..3 :
          /\ store[a] = GeoRecord
          /\ store[b].id = "page:p1"
          /\ isWidget(store[c])
          /\ store[c].parentId = "page:p1"
          /\ reply.widgets[1].id = store[c].id

C22_Written == {k \in 1..Len(store') : k > Len(store) \/ store'[k] # store[k]}

\* The request of this step is a mutation operation that succeeded.
C22_Succeeded ==
    \/ \E templateId \in TemplateIds, pageId \in PageParams, shapeId \in ShapeIds,
          now \in Times :
          /\ reply'.op = "add-widget" /\ reply'.status = 200
          /\ handleAddWidget(templateId, pageId, shapeId, now)
    \/ \E shapeId \in ShapeIds, htmlContent \in EditHtmls, preserveStorage \in BOOLEAN :
          /\ reply'.op = "edit-widget" /\ reply'.status = 200
          /\ handleEditWidgetHtml(shapeId, htmlContent, preserveStorage)
    \/ \E prompt \in Prompts, pageId \in PageParams, shapeId \in ShapeIds, now \in Times :
          /\ reply'.op = "generate-widget" /\ reply'.status = 200
          /\ handleGenerateWidget(prompt, pageId, TRUE, shapeId, now)
    \/ \E shapeId \in ShapeIds, storageData \in StorageDatas, merge \in BOOLEAN :
          /\ reply'.op = "update-storage" /\ reply'.status = 200
          /\ handleUpdateWidgetStorage(shapeId, storageData, merge)

\* C22, as claimed: a mutation operation that succeeds changes the record
\* store once, and every change of the record store goes with one call of
\* onDataChange, which calls schedulePersistToR2.
C22_OneMutationOneNotice ==
    [][/\ C22_Succeeded => Cardinality(C22_Written) = 1
       /\ (store' # store) <=> (notifications' = notifications + 1)
       /\ notifications' \in {notifications, notifications + 1}
      ]_vars

\* C22, amended: a mutation operation that succeeds changes at most one
\* record, and none only when the record it writes is the one the store has;
\* every change of the record store goes with one call of onDataChange, and
\* there is no call without a change.
C22_AtMostOneMutation ==
    [][/\ C22_Succeeded
          => /\ Cardinality(C22_Written) <= 1
             /\ Len(store') \in {Len(store), Len(store) + 1}
             /\ C22_Written = {}
                   => \E k \in 1..Len(store) :
                         /\ isWidget(store[k])
                         /\ "shapeId" \in DOMAIN reply' => store[k].id = reply'.shapeId
                         /\ "processedHtml" \in DOMAIN reply'
                               => store[k].props.htmlContent = reply'.processedHtml
       /\ (store' # store) <=> (notifications' = notifications + 1)
       /\ notifications' \in {notifications, notifications + 1}
      ]_vars

\* add_widget and then generate_widget with autoAdd, in a room that was
\* empty: two records, two calls of onDataChange.
C22_Witness ==
    /\ reply.op = "generate-widget"
    /\ reply.status = 200
    /\ "shapeId" \in DOMAIN reply
    /\ Len(store) = 2
    /\ isWidget(store[1]) /\ store[1].props.templateId = "notepad"
    /\ isWidget(store[2]) /\ store[2].id = reply.shapeId
    /\ notifications = 2

\* C24: the widget that a successful add_widget or generate_widget with
\* autoAdd writes has the parentId 'page:page' when no pageId was given and
\* the pageId given otherwise, whatever pages the room has.
C24_ParentPage ==
    [][/\ \A templateId \in TemplateIds, pageId \in PageParams, shapeId \in ShapeIds,
             now \in Times :
             (/\ reply'.op = "add-widget" /\ reply'.status = 200
              /\ handleAddWidget(templateId, pageId, shapeId, now))
             => /\ IndexOf(store', shapeId) # {}
                /\ \A k \in IndexOf(store', shapeId) :
                      store'[k].parentId = (IF pageId = NULL THEN "page:page" ELSE pageId)
       /\ \A prompt \in Prompts, pageId \in PageParams, shapeId \in ShapeIds,
             now \in Times :
             (/\ reply'.op = "generate-widget" /\ reply'.status = 200
              /\ handleGenerateWidget(prompt, pageId, TRUE, shapeId, now))
             => /\ IndexOf(store', shapeId) # {}
                /\ \A k \in IndexOf(store', shapeId) :
                      store'[k].parentId = (IF pageId = NULL THEN "page:page" ELSE pageId)
      ]_vars

\* add_widget without pageId in a room whose only page is p1: the widget is
\* on 'page:page', which is no page of the room.
C24_Witness ==
    /\ reply.op = "add-widget"
    /\ reply.status = 200
    /\ Len(store) = 3
    /\ store[1].id = "page:p1"
    /\ store[3].id = reply.shapeId
    /\ store[3].parentId = "page:page"
    /\ \A k \in 1..3 : store[k].id # "page:page"

\* C27: get-pages and get-widgets change no record and call onDataChange
\* never; what they answer is read from the store as it is at the request:
\* every page with its id and index, and, when get-widgets has no filter,
\* every widget with the content, storage and position its record has now.
C27_ReadsOnly ==
    [][/\ (reply' # reply /\ reply'.op \in ReadOps)
          => store' = store /\ notifications' = notifications
       /\ (reply'.op = "get-pages" /\ handleGetPages)
          => \A k \in 1..Len(store) :
                store[k].typeName = "page"
                   => \E a \in 1..Len(reply'.pages) :
                         /\ reply'.pages[a].id = store[k].id
                         /\ reply'.pages[a].index = store[k].index
       /\ (reply'.op = "get-widgets" /\ handleGetWidgets(NULL, NULL, NULL))
          => \A k \in 1..Len(store) :
                isWidget(store[k])
                   => \E a \in 1..Len(reply'.widgets) :
                         /\ reply'.widgets[a].id = store[k].id
                         /\ reply'.widgets[a].htmlContent = store[k].props.htmlContent
                         /\ reply'.widgets[a].miyagiStorage = store[k].props.miyagiStorage
                         /\ reply'.widgets[a].position = [x |-> store[k].x, y |-> store[k].y]
                         /\ reply'.widgets[a].properties = store[k].props
      ]_vars

\* get-widgets after an edit_widget_html that substituted the name and
\* emptied the storage: the entry has the new content and the empty storage.
C27_Witness ==
    /\ reply.op = "get-widgets"
    /\ notifications = 1
    /\ \E a \in 1..Len(reply.widgets), k \in 1..Len(store) :
          /\ isWidget(store[k])
          /\ reply.widgets[a].id = store[k].id
          /\ "htmlContent" \in DOMAIN reply.widgets[a]
          /\ "miyagiStorage" \in DOMAIN reply.widgets[a]
          /\ reply.widgets[a].htmlContent = <<"Hi ", "Ann", "!">>
          /\ reply.widgets[a].miyagiStorage = NoStorage
          /\ store[k].props.htmlContent = <<"Hi ", "Ann", "!">>
          /\ store[k].props.miyagiStorage = NoStorage

\* The throttle has no timer, no r2.put is in flight and none was rejected.
C25_Idle == thr.timerId = -1 /\ inflight = <<>> /\ ~putFailed

\* C25: whenever the coordinator has its room and is idle, the snapshot in
\* the bucket under rooms/<roomId> is the room as it is now, or the room was
\* never changed and the bucket has what it had when the room was loaded;
\* and no change notification is still without a save.
C25_PersistedWhenIdle ==
    (C25_Idle /\ roomPromise # 0 /\ promises[roomPromise].state = "fulfilled")
       => LET doc == rooms[promises[roomPromise].room].doc
              saved == r2[Key(roomId)]
          IN  /\ saved = doc \/ (saved = Absent /\ doc = 0)
              /\ ~unsaved

\* The construction of the room has failed: the memoized promise is rejected.
C26_Failed == roomPromise # 0 /\ promises[roomPromise].state = "rejected"

\* C26: once the construction has failed, every step but a restart of the
\* coordinator keeps the rejected promise memoized and issues no load, and
\* every request that calls getRoom is answered with the failure of the
\* load: a connect by the router, a tool request by its handler.
C26_FailureMemoized ==
    [][C26_Failed
         => /\ Restart \/ (/\ roomPromise' = roomPromise
                           /\ promises' = promises
                           /\ loads' = loads
                           /\ rooms' = <<>>)
            /\ \A op \in ToolOps, valid \in BOOLEAN, autoAdd \in BOOLEAN, found \in BOOLEAN :
                  (ReachesGetRoom(op, valid, autoAdd) /\ ToolRequest(op, valid, autoAdd, found))
                     => lastResp' = Resp(op, 500, "load failed")
            /\ \A rid \in RoomIds, u \in Users :
                  Connect(rid, TRUE, u) => lastResp' = RouterError("connect", "load failed")
      ]_vars

\* The load failed, no handler awaits it any more, and the tool request
\* answered last got the failure; one load was issued.
C26_Witness ==
    /\ C26_Failed
    /\ waiting = EmptyBag
    /\ loads = 1
    /\ Len(promises) = 1
    /\ lastResp = Resp("edit-widget", 500, "load failed")

\* The records after the handler of req has run alone, from its read of
\* the snapshot to its write.
C23_Alone(recs, req) ==
    IF req.op = "edit-widget" /\ FindWidget(recs, req.shapeId) = {}
    THEN recs
    ELSE put(recs, Written(recs, req))

\* The records after the handlers of reqs have run alone, one after the other.
RECURSIVE C23_Serial(_, _)
C23_Serial(recs, reqs) ==
    IF reqs = <<>> THEN recs
    ELSE C23_Serial(C23_Alone(recs, Head(reqs)), Tail(reqs))

\* C23: when the requests that awaited the room have all been handled, the
\* records are those that handling them alone, one after the other in some
\* order, leaves: no handler wrote a record built from a snapshot that
\* another handler's write had made stale.
C23_Serializable ==
    (microtasks = <<>> /\ arrived.requests # <<>>)
       => \E order \in Permutations(DOMAIN arrived.requests) :
             store = C23_Serial(arrived.store,
                                [k \in DOMAIN arrived.requests |->
                                    arrived.requests[order[k]]])

=============================================================================
